---- MODULE Spec2Model ----
(***************************************************************************)
(* A model of nails-pdf: the pest grammars and semantic actions of the COS *)
(* object parser (src/parsers/cos/mod.rs) and of the xref table parser     *)
(* (src/parsers/xref/mod.rs), and the bootstrap / object walk of           *)
(* src/main.rs.                                                            *)
(*                                                                         *)
(* Text is a sequence of one-character strings; positions are 1-based, an  *)
(* end position is exclusive.  A position result of 0 means "no match".    *)
(***************************************************************************)
EXTENDS Integers, Sequences, FiniteSets, TLC

VARIABLES
    cosIn,      \* how the COS text was written: a wrapper and its items
    cosText,    \* the text handed to the COS parser
    cosRes,     \* the outcome of the COS parser on cosText
    xrefIn,     \* how the xref text was written: declared count and entry lines
    xrefText,   \* the text handed to the xref table parser
    xrefRes,    \* the outcome of the xref table parser on xrefText
    fileIn,     \* how the file was written: its objects, xref entries and tail
    file,       \* the PDF file main.rs reads
    pc,         \* where main() is
    trailer,    \* the trailer DictNode get_doc_metadata returned
    xref,       \* the xref Vec<DictNode> get_doc_metadata returned
    xrefAt,     \* the offset parse_xref was called with
    failedAt,   \* the table position at which cat_xref_table panicked, 0 if none
    extracted   \* the cat_object calls so far: offset and dictionary text

vars == <<cosIn, cosText, cosRes, xrefIn, xrefText, xrefRes,
          fileIn, file, pc, trailer, xref, xrefAt, failedAt, extracted>>

cosVars  == <<cosIn, cosText, cosRes>>
xrefVars == <<xrefIn, xrefText, xrefRes>>
mainVars == <<fileIn, file, pc, trailer, xref, xrefAt, failedAt, extracted>>

-----------------------------------------------------------------------------
(* Characters and character-level helpers                                  *)

Digits == {"0", "1", "2", "3", "4", "5", "6", "7", "8", "9"}
Lower == {"a", "b", "c", "d", "e", "f", "g", "h", "i", "j", "k", "l", "m",
          "n", "o", "p", "q", "r", "s", "t", "u", "v", "w", "x", "y", "z"}
Upper == {"A", "B", "C", "D", "E", "F", "G", "H", "I", "J", "K", "L", "M",
          "N", "O", "P", "Q", "R", "S", "T", "U", "V", "W", "X", "Y", "Z"}

\* the character at position p, or "" past the end of the input
Ch(t, p) == IF p >= 1 /\ p <= Len(t) THEN t[p] ELSE ""

\* a literal [".."]: the position after it, or 0
Lit(t, p, s) ==
    IF p >= 1 /\ p + Len(s) - 1 <= Len(t) /\ SubSeq(t, p, p + Len(s) - 1) = s
    THEN p + Len(s) ELSE 0

DigitVal(c) ==
    CASE c = "0" -> 0 [] c = "1" -> 1 [] c = "2" -> 2 [] c = "3" -> 3
      [] c = "4" -> 4 [] c = "5" -> 5 [] c = "6" -> 6 [] c = "7" -> 7
      [] c = "8" -> 8 [] c = "9" -> 9

RECURSIVE DigitsRun(_, _)
\* ['0'..'9']* from p: the position after the run (p when there is none)
DigitsRun(t, p) == IF Ch(t, p) \in Digits THEN DigitsRun(t, p + 1) ELSE p

RECURSIVE DecVal(_)
DecVal(s) == IF s = <<>> THEN 0
             ELSE 10 * DecVal(SubSeq(s, 1, Len(s) - 1)) + DigitVal(s[Len(s)])

RECURSIVE StripZeros(_)
StripZeros(s) == IF Len(s) > 1 /\ s[1] = "0" THEN StripZeros(Tail(s)) ELSE s

RECURSIVE DigitsLeq(_, _)
\* a <= b for two digit strings of the same length
DigitsLeq(a, b) ==
    IF a = <<>> THEN TRUE
    ELSE IF DigitVal(a[1]) < DigitVal(b[1]) THEN TRUE
    ELSE IF DigitVal(a[1]) > DigitVal(b[1]) THEN FALSE
    ELSE DigitsLeq(Tail(a), Tail(b))

AllDigits(s) == s # <<>> /\ \A i \in 1..Len(s) : s[i] \in Digits

\* i64::MAX and u64::MAX as decimal digit strings
I64MaxDigits == <<"9","2","2","3","3","7","2","0","3","6","8","5","4","7","7","5","8","0","7">>
U64MaxDigits == <<"1","8","4","4","6","7","4","4","0","7","3","7","0","9","5","5","1","6","1","5">>
\* the digits of i64::MIN, without its sign
I64MinDigits == <<"9","2","2","3","3","7","2","0","3","6","8","5","4","7","7","5","8","0","8">>

FitsIn(s, max) ==
    LET d == StripZeros(s)
    IN  Len(d) < Len(max) \/ (Len(d) = Len(max) /\ DigitsLeq(d, max))

\* str::parse::<i64>(): Ok(value) or Err
ParseI64(s) ==
    LET neg == s # <<>> /\ (s[1] = "-")
        body == IF s # <<>> /\ s[1] \in {"-", "+"} THEN Tail(s) ELSE s
    IN  IF AllDigits(body) /\ FitsIn(body, IF neg THEN I64MinDigits ELSE I64MaxDigits)
        THEN [ok |-> TRUE, v |-> IF neg THEN 0 - DecVal(body) ELSE DecVal(body)]
        ELSE [ok |-> FALSE, v |-> 0]

\* str::parse::<u64>(): Ok(value) or Err
ParseU64(s) ==
    LET body == IF s # <<>> /\ s[1] = "+" THEN Tail(s) ELSE s
    IN  IF AllDigits(body) /\ FitsIn(body, U64MaxDigits)
        THEN [ok |-> TRUE, v |-> DecVal(body)]
        ELSE [ok |-> FALSE, v |-> 0]

-----------------------------------------------------------------------------
(* Grammar results: a rule either fails or yields the position after the   *)
(* match and the tokens it queued.                                         *)

Fail == [ok |-> FALSE, pos |-> 0, q |-> <<>>]
Ok(p, q) == [ok |-> TRUE, pos |-> p, q |-> q]
Tok(r, s, e) == [rule |-> r, s |-> s, e |-> e]

-----------------------------------------------------------------------------
(* The COS grammar (src/parsers/cos/mod.rs, grammar! block).  Atomic rules *)
(* (@) are position functions; the others return the tokens they queue.    *)
(* Between the elements of a non-atomic sequence or repetition the         *)
(* generated parser skips whitespace.                                      *)

\* whitespace = _{ [" "] | ["\t"] | ["\r"] | ["\n"] | ["endobj"] }
whitespace(t, p) ==
    IF Ch(t, p) \in {" ", "\t", "\r", "\n"} THEN p + 1
    ELSE Lit(t, p, <<"e", "n", "d", "o", "b", "j">>)

RECURSIVE skip(_, _)
skip(t, p) == LET n == whitespace(t, p) IN IF n = 0 THEN p ELSE skip(t, n)

\* special = { beginarray | begindict | endarray | enddict | ["\\"] | ["/"] | ["("] | [")"] },
\* as the atomic rule key uses it in its lookahead (no whitespace is skipped
\* inside an atomic rule)
special(t, p) ==
    \/ Ch(t, p) \in {"[", "]", "\\", "/", "(", ")"}
    \/ Lit(t, p, <<"<", "<">>) # 0
    \/ Lit(t, p, <<">", ">">>) # 0

RECURSIVE KeyRun(_, _)
\* (!special ~ !whitespace ~ any)* from p
KeyRun(t, p) ==
    IF p <= Len(t) /\ ~special(t, p) /\ whitespace(t, p) = 0
    THEN KeyRun(t, p + 1) ELSE p

\* key = @{ ["/"] ~ (!special ~ !whitespace ~ any)+ }
key(t, p) ==
    IF Ch(t, p) = "/"
    THEN LET e == KeyRun(t, p + 1) IN IF e > p + 1 THEN e ELSE 0
    ELSE 0

\* acceptable_string, one step: the position after it, or 0
acceptable_string(t, p) ==
    IF whitespace(t, p) # 0 THEN whitespace(t, p)
    ELSE IF Ch(t, p) \in ({"/", ":", ".", "@", "'"} \cup Lower \cup Upper \cup Digits)
         THEN p + 1 ELSE 0

RECURSIVE AcceptableRun(_, _)
AcceptableRun(t, p) ==
    LET n == acceptable_string(t, p) IN IF n = 0 THEN p ELSE AcceptableRun(t, n)

\* string = @{ (["("] ~ acceptable_string* ~ [")"]) | (["<"] ~ acceptable_string+ ~ [">"]) }
string(t, p) ==
    LET paren == IF Ch(t, p) = "("
                 THEN LET e == AcceptableRun(t, p + 1)
                      IN  IF Ch(t, e) = ")" THEN e + 1 ELSE 0
                 ELSE 0
        angle == IF Ch(t, p) = "<"
                 THEN LET e == AcceptableRun(t, p + 1)
                      IN  IF e > p + 1 /\ Ch(t, e) = ">" THEN e + 1 ELSE 0
                 ELSE 0
    IN  IF paren # 0 THEN paren ELSE angle

\* float = @{ ["-"]? ~ ['0'..'9']+ ~ ["."] ~ ['0'..'9']* }
float(t, p) ==
    LET p1 == IF Ch(t, p) = "-" THEN p + 1 ELSE p
        p2 == DigitsRun(t, p1)
    IN  IF p2 > p1 /\ Ch(t, p2) = "." THEN DigitsRun(t, p2 + 1) ELSE 0

\* an int rule without its lookahead
IntNoLookahead(t, p) ==
    LET p1 == IF Ch(t, p) = "-" THEN p + 1 ELSE p
        p2 == DigitsRun(t, p1)
    IN  IF p2 > p1 THEN p2 ELSE 0

\* int = @{ !float ~ ["-"]? ~ ['0'..'9']+ }
int(t, p) ==
    IF float(t, p) # 0 THEN 0
    ELSE LET p1 == IF Ch(t, p) = "-" THEN p + 1 ELSE p
             p2 == DigitsRun(t, p1)
         IN  IF p2 > p1 THEN p2 ELSE 0

\* boolean = @{ ["true"] | ["false"] }
boolean(t, p) ==
    IF Lit(t, p, <<"t", "r", "u", "e">>) # 0 THEN Lit(t, p, <<"t", "r", "u", "e">>)
    ELSE Lit(t, p, <<"f", "a", "l", "s", "e">>)

\* an atomic rule as a node: one token
Atom(r, p, e) == IF e = 0 THEN Fail ELSE Ok(e, <<Tok(r, p, e)>>)

\* begindict = { ["<"] ~ ["<"] }
begindict(t, p) ==
    IF Ch(t, p) = "<" /\ Ch(t, skip(t, p + 1)) = "<"
    THEN Ok(skip(t, p + 1) + 1, <<Tok("begindict", p, skip(t, p + 1) + 1)>>)
    ELSE Fail

\* enddict = { [">"] ~ [">"] }
enddict(t, p) ==
    IF Ch(t, p) = ">" /\ Ch(t, skip(t, p + 1)) = ">"
    THEN Ok(skip(t, p + 1) + 1, <<Tok("enddict", p, skip(t, p + 1) + 1)>>)
    ELSE Fail

\* beginarray = { ["["] }
beginarray(t, p) == IF Ch(t, p) = "[" THEN Ok(p + 1, <<Tok("beginarray", p, p + 1)>>) ELSE Fail

\* endarray = { ["]"] }
endarray(t, p) == IF Ch(t, p) = "]" THEN Ok(p + 1, <<Tok("endarray", p, p + 1)>>) ELSE Fail

\* reference = { int ~ int ~ ["R"] }
reference(t, p) ==
    LET e1 == int(t, p)
        s2 == skip(t, e1)
        e2 == int(t, s2)
        s3 == skip(t, e2)
    IN  IF e1 # 0 /\ e2 # 0 /\ Ch(t, s3) = "R"
        THEN Ok(s3 + 1, <<Tok("reference", p, s3 + 1), Tok("int", p, e1), Tok("int", s2, e2)>>)
        ELSE Fail

RECURSIVE node(_, _), array(_, _), dictionary(_, _), keypair(_, _),
          NodeStar(_, _, _), KeypairStar(_, _, _)

\* node = _{ (array | reference | string | key | int | float | boolean | dictionary) }
node(t, p) ==
    LET a == array(t, p)
        r == reference(t, p)
    IN  IF a.ok THEN a
        ELSE IF r.ok THEN r
        ELSE IF string(t, p) # 0 THEN Atom("string", p, string(t, p))
        ELSE IF key(t, p) # 0 THEN Atom("key", p, key(t, p))
        ELSE IF int(t, p) # 0 THEN Atom("int", p, int(t, p))
        ELSE IF float(t, p) # 0 THEN Atom("float", p, float(t, p))
        ELSE IF boolean(t, p) # 0 THEN Atom("boolean", p, boolean(t, p))
        ELSE dictionary(t, p)

\* node*: matched from p (after a skip unless it is the first), tokens q so far
NodeStar(t, p, q) ==
    LET n == node(t, skip(t, p))
    IN  IF n.ok THEN NodeStar(t, n.pos, q \o n.q) ELSE Ok(p, q)

\* array = { beginarray ~ node* ~ endarray }
array(t, p) ==
    LET b == beginarray(t, p)
    IN  IF ~b.ok THEN Fail
        ELSE LET ns == NodeStar(t, b.pos, <<>>)
                 e  == endarray(t, skip(t, ns.pos))
             IN  IF e.ok THEN Ok(e.pos, <<Tok("array", p, e.pos)>> \o b.q \o ns.q \o e.q)
                 ELSE Fail

\* keypair = { key ~ node }
keypair(t, p) ==
    LET k == key(t, p)
    IN  IF k = 0 THEN Fail
        ELSE LET n == node(t, skip(t, k))
             IN  IF n.ok THEN Ok(n.pos, <<Tok("keypair", p, n.pos), Tok("key", p, k)>> \o n.q)
                 ELSE Fail

KeypairStar(t, p, q) ==
    LET k == keypair(t, skip(t, p))
    IN  IF k.ok THEN KeypairStar(t, k.pos, q \o k.q) ELSE Ok(p, q)

\* dictionary = { begindict ~ keypair* ~ enddict }
dictionary(t, p) ==
    LET b == begindict(t, p)
    IN  IF ~b.ok THEN Fail
        ELSE LET ks == KeypairStar(t, b.pos, <<>>)
                 e  == enddict(t, skip(t, ks.pos))
             IN  IF e.ok THEN Ok(e.pos, <<Tok("dictionary", p, e.pos)>> \o b.q \o ks.q \o e.q)
                 ELSE Fail

-----------------------------------------------------------------------------
(* DictNode (src/parsers/cos/mod.rs:13-21) and the process! block that     *)
(* builds it from the token queue.  A matcher returns the value built and  *)
(* the index of the next token, or panics.                                 *)

IntNode(v)    == [tag |-> "Int", i |-> v]
FloatNode(f)  == [tag |-> "Float", f |-> f]
StrNode(s)    == [tag |-> "Str", s |-> s]
BoolNode(b)   == [tag |-> "Bool", b |-> b]
RefNode(a, b) == [tag |-> "ObjectReference", a |-> a, b |-> b]
ArrayNode(xs) == [tag |-> "Array", items |-> xs]
DictNode(m)   == [tag |-> "Dict", m |-> m]

Panic == [st |-> "panic"]
Built(v, i) == [st |-> "ok", v |-> v, i |-> i]

Slice(t, tok) == SubSeq(t, tok.s, tok.e - 1)

RECURSIVE StripTrailingZeros(_)
StripTrailingZeros(s) ==
    IF s # <<>> /\ s[Len(s)] = "0" THEN StripTrailingZeros(SubSeq(s, 1, Len(s) - 1)) ELSE s

\* str::parse::<f64>() on a text the float rule matched: the number as sign,
\* integer digits and fraction digits, equal for texts that write the same
\* number (exact up to the 15 significant digits an f64 holds)
ParseF64(s) ==
    LET neg  == s[1] = "-"
        body == IF neg THEN Tail(s) ELSE s
        dot  == CHOOSE k \in 1..Len(body) : body[k] = "."
        ip   == StripZeros(SubSeq(body, 1, dot - 1))
        fp   == StripTrailingZeros(SubSeq(body, dot + 1, Len(body)))
    IN  [neg |-> neg /\ ~(ip = <<"0">> /\ fp = <<>>), int |-> ip, frac |-> fp]

RECURSIVE Reverse(_)
\* Vec::reverse
Reverse(xs) == IF xs = <<>> THEN <<>> ELSE Append(Reverse(Tail(xs)), Head(xs))

\* HashMap::new and HashMap::insert
EmptyMap == [k \in {} |-> 0]
MapInsert(m, k, v) == [x \in (DOMAIN m) \cup {k} |-> IF x = k THEN v ELSE m[x]]

\* a reference arm that takes its operands in the wrong order
ReferenceArmSwapped(u1, u2, i) ==
    IF u1.tag = "Int" /\ u2.tag = "Int" THEN Built(RefNode(u2.i, u1.i), i) ELSE Panic

\* the reference arm: match (u1, u2) { (Int(a), Int(b)) => ObjectReference(a, b), _ => unreachable!() }
ReferenceArm(u1, u2, i) ==
    IF u1.tag = "Int" /\ u2.tag = "Int" THEN Built(RefNode(u1.i, u2.i), i) ELSE Panic

\* an array arm that forgets contents.reverse()
ArrayArmNoReverse(contents) == ArrayNode(contents)

\* the array arm: contents.reverse(); DictNode::Array(contents)
ArrayArm(contents) == ArrayNode(Reverse(contents))

\* _array's second arm: tail.push(head); tail
ArrayPush(tail, head) == Append(tail, head)

\* a _dict arm that keeps the key's leading "/"
DictInsertKeepSlash(tail, k, value) == MapInsert(tail, k, value)

\* a _dict arm that leaves a key already in the map alone
DictInsertIfAbsent(tail, k, value) ==
    IF Tail(k) \in DOMAIN tail THEN tail ELSE MapInsert(tail, Tail(k), value)

\* _dict's second arm: tail.insert(key[1..].to_string(), value); tail
DictInsert(tail, k, value) == MapInsert(tail, Tail(k), value)

RECURSIVE cos_parse(_, _, _), cos_array(_, _, _), cos_dict(_, _, _)

\* parse(&self) -> DictNode
cos_parse(t, q, i) ==
    IF i > Len(q) THEN Panic
    ELSE LET rule == q[i].rule
             txt  == Slice(t, q[i])
         IN
         CASE rule = "int" ->
                IF ParseI64(txt).ok THEN Built(IntNode(ParseI64(txt).v), i + 1) ELSE Panic
           [] rule = "float" -> Built(FloatNode(ParseF64(txt)), i + 1)
           [] rule = "string" -> Built(StrNode(txt), i + 1)
           [] rule = "boolean" -> Built(BoolNode(txt = <<"t", "r", "u", "e">>), i + 1)
           [] rule = "key" -> Built(StrNode(txt), i + 1)
           [] rule = "reference" ->
                LET u1 == cos_parse(t, q, i + 1)
                IN  IF u1.st = "panic" THEN Panic
                    ELSE LET u2 == cos_parse(t, q, u1.i)
                         IN  IF u2.st = "panic" THEN Panic
                             ELSE ReferenceArm(u1.v, u2.v, u2.i)
           [] rule = "array" ->
                IF i + 1 <= Len(q) /\ q[i + 1].rule = "beginarray"
                THEN LET c == cos_array(t, q, i + 2)
                     IN  IF c.st = "panic" THEN Panic ELSE Built(ArrayArm(c.v), c.i)
                ELSE Panic
           [] rule = "dictionary" ->
                IF i + 1 <= Len(q) /\ q[i + 1].rule = "begindict"
                THEN LET c == cos_dict(t, q, i + 2)
                     IN  IF c.st = "panic" THEN Panic ELSE Built(DictNode(c.v), c.i)
                ELSE Panic
           [] OTHER -> Panic

\* _array(&self) -> Vec<DictNode>
cos_array(t, q, i) ==
    IF i > Len(q) THEN Panic
    ELSE IF q[i].rule = "endarray" THEN Built(<<>>, i + 1)
    ELSE LET head == cos_parse(t, q, i)
         IN  IF head.st = "panic" THEN Panic
             ELSE LET tail == cos_array(t, q, head.i)
                  IN  IF tail.st = "panic" THEN Panic
                      ELSE Built(ArrayPush(tail.v, head.v), tail.i)

\* _dict(&self) -> HashMap<String, DictNode>
cos_dict(t, q, i) ==
    IF i > Len(q) THEN Panic
    ELSE IF q[i].rule = "enddict" THEN Built(EmptyMap, i + 1)
    ELSE IF q[i].rule = "keypair" /\ i + 1 <= Len(q) /\ q[i + 1].rule = "key"
    THEN LET value == cos_parse(t, q, i + 2)
         IN  IF value.st = "panic" THEN Panic
             ELSE LET tail == cos_dict(t, q, value.i)
                  IN  IF tail.st = "panic" THEN Panic
                      ELSE Built(DictInsert(tail.v, Slice(t, q[i + 1]), value.v), tail.i)
    ELSE Panic

\* what a caller of the COS parser does (as the tests do): skip, match a
\* node, then run parse() on the token queue
parse_object(t) ==
    LET g == node(t, skip(t, 1))
    IN  IF ~g.ok THEN [st |-> "error"]
        ELSE LET r == cos_parse(t, g.q, 1)
             IN  IF r.st = "panic" THEN [st |-> "panic"]
                 ELSE [st |-> "ok", v |-> r.v, end |-> g.pos]

-----------------------------------------------------------------------------
(* The xref grammar (src/parsers/xref/mod.rs, grammar! block).  Here       *)
(* whitespace is blank and tab only; newline is an explicit rule.          *)

\* whitespace = _{ [" "] | ["\t"] }
xref_whitespace(t, p) == IF Ch(t, p) \in {" ", "\t"} THEN p + 1 ELSE 0

RECURSIVE xref_skip(_, _)
xref_skip(t, p) ==
    LET n == xref_whitespace(t, p) IN IF n = 0 THEN p ELSE xref_skip(t, n)

RECURSIVE NewlineStar(_, _)
\* newline*: the position after the last newline matched
NewlineStar(t, p) ==
    IF Ch(t, p) = "\n" /\ Ch(t, xref_skip(t, p + 1)) = "\n"
    THEN NewlineStar(t, xref_skip(t, p + 1))
    ELSE IF Ch(t, p) = "\n" THEN p + 1 ELSE p

\* int = @{ ['0'..'9']+ }
xref_int(t, p) == IF DigitsRun(t, p) > p THEN DigitsRun(t, p) ELSE 0

\* usage = @{ ["f"] | ["n"] }
usage(t, p) == IF Ch(t, p) \in {"f", "n"} THEN p + 1 ELSE 0

\* xref_begin = { newline* ~ ["xref\n"] }
xref_begin(t, p) ==
    LET e == Lit(t, xref_skip(t, NewlineStar(t, p)), <<"x", "r", "e", "f", "\n">>)
    IN  IF e # 0 THEN Ok(e, <<Tok("xref_begin", p, e)>>) ELSE Fail

\* xref_end = { newline* ~ ["trailer\n"] }
xref_end(t, p) ==
    LET e == Lit(t, xref_skip(t, NewlineStar(t, p)),
                 <<"t", "r", "a", "i", "l", "e", "r", "\n">>)
    IN  IF e # 0 THEN Ok(e, <<Tok("xref_end", p, e)>>) ELSE Fail

\* xref_header = { newline* ~ int ~ int ~ newline }
xref_header(t, p) ==
    LET s1 == xref_skip(t, NewlineStar(t, p))
        e1 == xref_int(t, s1)
        s2 == xref_skip(t, e1)
        e2 == xref_int(t, s2)
        s3 == xref_skip(t, e2)
    IN  IF e1 # 0 /\ e2 # 0 /\ Ch(t, s3) = "\n"
        THEN Ok(s3 + 1, <<Tok("xref_header", p, s3 + 1), Tok("int", s1, e1), Tok("int", s2, e2)>>)
        ELSE Fail

\* xref_entry = { newline* ~ int ~ int ~ usage ~ newline }
xref_entry(t, p) ==
    LET s1 == xref_skip(t, NewlineStar(t, p))
        e1 == xref_int(t, s1)
        s2 == xref_skip(t, e1)
        e2 == xref_int(t, s2)
        s3 == xref_skip(t, e2)
        e3 == usage(t, s3)
        s4 == xref_skip(t, e3)
    IN  IF e1 # 0 /\ e2 # 0 /\ e3 # 0 /\ Ch(t, s4) = "\n"
        THEN Ok(s4 + 1, <<Tok("xref_entry", p, s4 + 1), Tok("int", s1, e1),
                          Tok("int", s2, e2), Tok("usage", s3, e3)>>)
        ELSE Fail

RECURSIVE EntryStar(_, _, _)
\* xref_entry*: from p (the skip already done), tokens q so far
EntryStar(t, p, q) ==
    LET n == xref_entry(t, xref_skip(t, p))
    IN  IF n.ok THEN EntryStar(t, n.pos, q \o n.q) ELSE Ok(p, q)

\* xref = { xref_begin ~ xref_header ~ xref_entry+ ~ xref_end }
xref_rule(t, p) ==
    LET b == xref_begin(t, p)
        h == xref_header(t, xref_skip(t, b.pos))
        f == xref_entry(t, xref_skip(t, h.pos))
        es == EntryStar(t, f.pos, f.q)
        e == xref_end(t, xref_skip(t, es.pos))
    IN  IF b.ok /\ h.ok /\ f.ok /\ e.ok
        THEN Ok(e.pos, <<Tok("xref", p, e.pos)>> \o b.q \o h.q \o es.q \o e.q)
        ELSE Fail

-----------------------------------------------------------------------------
(* XRefEntry / XRefTable and the process! block of the xref parser         *)

XRefEntry(o, g, f) == [offset |-> o, generation_id |-> g, is_free |-> f]

\* _parse_xref_entry(&self) -> XRefEntry
xref_parse_xref_entry(t, q, i) ==
    IF /\ i + 3 <= Len(q) /\ q[i].rule = "xref_entry" /\ q[i + 1].rule = "int"
       /\ q[i + 2].rule = "int" /\ q[i + 3].rule = "usage"
       /\ ParseU64(Slice(t, q[i + 1])).ok /\ ParseU64(Slice(t, q[i + 2])).ok
    THEN Built(XRefEntry(ParseU64(Slice(t, q[i + 1])).v,
                         ParseU64(Slice(t, q[i + 2])).v,
                         Slice(t, q[i + 3]) = <<"f">>), i + 4)
    ELSE Panic

\* an entry arm that loses the entry
XrefPushDropped(tail, entry) == tail

\* _parse_xref's last arm: tail.push(entry); tail
XrefPush(tail, entry) == Append(tail, entry)

RECURSIVE xref_parse_xref(_, _, _)
\* _parse_xref(&self) -> Vec<XRefEntry>
xref_parse_xref(t, q, i) ==
    IF i > Len(q) THEN Panic
    ELSE IF q[i].rule = "xref" /\ i + 1 <= Len(q) /\ q[i + 1].rule = "xref_begin"
         THEN xref_parse_xref(t, q, i + 2)
    ELSE IF /\ q[i].rule = "xref_header" /\ i + 2 <= Len(q)
            /\ q[i + 1].rule = "int" /\ q[i + 2].rule = "int"
         THEN xref_parse_xref(t, q, i + 3)
    ELSE IF q[i].rule = "xref_end" THEN Built(<<>>, i + 1)
    ELSE LET entry == xref_parse_xref_entry(t, q, i)
         IN  IF entry.st = "panic" THEN Panic
             ELSE LET tail == xref_parse_xref(t, q, entry.i)
                  IN  IF tail.st = "panic" THEN Panic
                      ELSE Built(XrefPush(tail.v, entry.v), tail.i)

\* a parse arm that forgets entries.reverse()
XrefParseArmNoReverse(entries) == entries

\* parse's arm: entries.reverse(); XRefTable(entries)
XrefParseArm(entries) == Reverse(entries)

\* what a caller of the xref parser does (as test_parsing_xref does):
\* skip, match xref, then run parse() on the token queue
xref_parse(t) ==
    LET g == xref_rule(t, xref_skip(t, 1))
    IN  IF ~g.ok THEN [st |-> "error"]
        ELSE LET r == xref_parse_xref(t, g.q, 1)
             IN  IF r.st = "panic" THEN [st |-> "panic"]
                 ELSE [st |-> "ok", table |-> XrefParseArm(r.v), end |-> g.pos]

-----------------------------------------------------------------------------
(* src/main.rs: the file, and the functions main() calls.                  *)
(*                                                                         *)
(* A file is `pad` leading bytes that hold no newline and no blank,        *)
(* followed by the bytes of `body`.  Where a read covers leading bytes     *)
(* the model keeps one "FILL" character for the whole run of them.         *)
(* Every unwrap() and panic!() is an outcome "panic"; a seek or read that  *)
(* the operating system fails is an input of cat_object only.              *)

CHUNK_SIZE == 10240

FileSize(f) == f.pad + Len(f.body)

\* the bytes of f from byte offset `from`, at most `n` of them
ReadBytes(f, from, n) ==
    IF from < f.pad
    THEN LET lead == IF f.pad - from < n THEN f.pad - from ELSE n
             rest == IF n - lead < Len(f.body) THEN n - lead ELSE Len(f.body)
         IN  (IF lead > 0 THEN <<"FILL">> ELSE <<>>) \o SubSeq(f.body, 1, rest)
    ELSE LET first == from - f.pad + 1
             last  == IF first + n - 1 < Len(f.body) THEN first + n - 1 ELSE Len(f.body)
         IN  SubSeq(f.body, first, last)

RECURSIVE FindSep(_, _, _)
\* the position of the first sep at or after i, Len + 1 if there is none
FindSep(bytes, sep, i) ==
    IF i > Len(bytes) \/ bytes[i] = sep THEN i ELSE FindSep(bytes, sep, i + 1)

RECURSIVE SplitFrom(_, _, _)
SplitFrom(bytes, sep, i) ==
    LET e == FindSep(bytes, sep, i)
    IN  IF e > Len(bytes) THEN <<SubSeq(bytes, i, Len(bytes))>>
        ELSE <<SubSeq(bytes, i, e - 1)>> \o SplitFrom(bytes, sep, e + 1)

\* slice::split(|byte| *byte == sep): the segments between separators
Split(bytes, sep) == SplitFrom(bytes, sep, 1)

\* BufRead::lines(): the lines without their terminator; no empty last line
Lines(bytes) ==
    LET segs == Split(bytes, "\n")
        kept == IF segs[Len(segs)] = <<>> THEN SubSeq(segs, 1, Len(segs) - 1) ELSE segs
    IN  [i \in 1..Len(kept) |->
            IF kept[i] # <<>> /\ kept[i][Len(kept[i])] = "\r"
            THEN SubSeq(kept[i], 1, Len(kept[i]) - 1) ELSE kept[i]]

StartsWith(s, prefix) == Lit(s, 1, prefix) # 0

IsBlank(c) == c \in {" ", "\t", "\n", "\r"}

RECURSIVE TakeWord(_, _)
TakeWord(s, i) ==
    IF i > Len(s) \/ IsBlank(s[i]) THEN <<>> ELSE <<s[i]>> \o TakeWord(s, i + 1)

RECURSIVE SkipBlank(_, _)
SkipBlank(s, i) == IF i <= Len(s) /\ IsBlank(s[i]) THEN SkipBlank(s, i + 1) ELSE i

\* split_whitespace().collect()[0]: the first word of the line, <<>> if none
FirstWord(s) == TakeWord(s, SkipBlank(s, 1))

kwTrailer   == <<"t", "r", "a", "i", "l", "e", "r">>
kwStartxref == <<"s", "t", "a", "r", "t", "x", "r", "e", "f">>
kwStream    == <<"s", "t", "r", "e", "a", "m">>
kwEndstream == <<"e", "n", "d", "s", "t", "r", "e", "a", "m">>

\* tokens_to_dict_node(tokens)
tokens_to_dict_node(tokens) ==
    IF Len(tokens) = 1 THEN [st |-> "ok", v |-> StrNode(tokens[1])]
    ELSE IF Len(tokens) = 3 /\ tokens[3] = <<"R">>
         THEN IF ParseU64(tokens[1]).ok /\ ParseU64(tokens[2]).ok
              THEN [st |-> "ok", v |-> RefNode(ParseU64(tokens[1]).v, ParseU64(tokens[2]).v)]
              ELSE Panic
         ELSE [st |-> "ok", v |-> ArrayNode([i \in 1..Len(tokens) |-> StrNode(tokens[i])])]

\* the locals of parse_dict at the top of its loop
ParseDictStart ==
    [in_dict |-> FALSE, in_array |-> FALSE, dict |-> EmptyMap,
     values_so_far |-> <<>>, array_so_far |-> <<>>, last_key |-> <<>>]

\* one pass of the body of parse_dict's loop on a token: the locals after
\* it, and whether the loop goes on, breaks or panics
ParseDictStep(l, tok) ==
    IF ~l.in_dict THEN [go |-> "continue", l |-> l]
    ELSE IF tok = <<"<", "<">> THEN [go |-> "continue", l |-> [l EXCEPT !.in_dict = TRUE]]
    ELSE IF StartsWith(tok, <<">", ">">>) THEN [go |-> "break", l |-> l]
    ELSE IF tok = <<"[">>
         THEN [go |-> "continue", l |-> [l EXCEPT !.in_array = TRUE, !.array_so_far = <<>>]]
    ELSE IF tok = <<"]">>
         THEN [go |-> "continue",
               l |-> [l EXCEPT !.in_array = FALSE,
                               !.values_so_far = l.values_so_far \o l.array_so_far,
                               !.array_so_far = <<>>]]
    ELSE IF StartsWith(tok, <<"/">>)
         THEN IF l.last_key # <<>> /\ tokens_to_dict_node(l.values_so_far).st = "panic"
              THEN [go |-> "panic", l |-> l]
              ELSE [go |-> "continue",
                    l |-> [l EXCEPT
                             !.dict = IF l.last_key # <<>>
                                      THEN MapInsert(l.dict, l.last_key[1],
                                                     tokens_to_dict_node(l.values_so_far).v)
                                      ELSE l.dict,
                             !.values_so_far = <<>>,
                             !.last_key = <<tok>>]]
    ELSE IF l.in_array
         THEN [go |-> "continue", l |-> [l EXCEPT !.array_so_far = Append(l.array_so_far, tok)]]
         ELSE [go |-> "continue", l |-> [l EXCEPT !.values_so_far = Append(l.values_so_far, tok)]]

RECURSIVE ParseDictLoop(_, _)
ParseDictLoop(l, toks) ==
    IF toks = <<>> THEN [st |-> "ok", l |-> l]
    ELSE LET r == ParseDictStep(l, Head(toks))
         IN  IF r.go = "panic" THEN Panic
             ELSE IF r.go = "break" THEN [st |-> "ok", l |-> r.l]
             ELSE ParseDictLoop(r.l, Tail(toks))

\* parse_dict(buffer) -> DictNode
parse_dict(buffer) ==
    LET r == ParseDictLoop(ParseDictStart, Split(buffer, " "))
    IN  IF r.st = "panic" THEN Panic ELSE [st |-> "ok", v |-> DictNode(r.l.dict)]

RECURSIVE ParseXrefLoop(_, _)
\* the loop of parse_xref over the lines left
ParseXrefLoop(lines, acc) ==
    IF lines = <<>> THEN [st |-> "ok", v |-> acc]
    ELSE IF Head(lines) = kwTrailer THEN [st |-> "ok", v |-> acc]
    ELSE IF FirstWord(Head(lines)) = <<>> THEN Panic
    ELSE ParseXrefLoop(Tail(lines), Append(acc, StrNode(FirstWord(Head(lines)))))

\* parse_xref(file, offset) -> DictNode
parse_xref(f, offset) ==
    LET lines == Lines(ReadBytes(f, offset, FileSize(f)))
        r == ParseXrefLoop(SubSeq(lines, 3, Len(lines)), <<>>)
    IN  IF r.st = "panic" THEN Panic ELSE [st |-> "ok", v |-> ArrayNode(r.v)]

\* the locals of get_doc_metadata's scan at the top of its loop
ScanStart == [found_xref |-> FALSE, found_trailer |-> FALSE, xref_offset |-> 0, trailer |-> <<>>]

\* one pass of the body of the scan on a line of the trailing window
ScanStep(l, line) ==
    IF line = kwTrailer THEN [st |-> "ok", l |-> [l EXCEPT !.found_trailer = TRUE]]
    ELSE IF line = kwStartxref THEN [st |-> "ok", l |-> [l EXCEPT !.found_xref = TRUE]]
    ELSE IF l.found_trailer /\ ~l.found_xref
         THEN [st |-> "ok", l |-> [l EXCEPT !.trailer = l.trailer \o line]]
    ELSE IF l.found_xref /\ l.xref_offset = 0
         THEN IF ParseU64(line).ok
              THEN [st |-> "ok", l |-> [l EXCEPT !.xref_offset = ParseU64(line).v]]
              ELSE Panic
    ELSE [st |-> "ok", l |-> l]

RECURSIVE ScanLoop(_, _)
ScanLoop(l, lines) ==
    IF lines = <<>> THEN [st |-> "ok", l |-> l]
    ELSE LET r == ScanStep(l, Head(lines))
         IN  IF r.st = "panic" THEN Panic ELSE ScanLoop(r.l, Tail(lines))

\* get_doc_metadata(file) -> (DictNode, DictNode); xrefAt is the offset
\* parse_xref was called with, -1 when it was not called
get_doc_metadata(f) ==
    IF FileSize(f) - CHUNK_SIZE < 0 THEN [st |-> "panic", xrefAt |-> 0 - 1]
    ELSE LET buffer == ReadBytes(f, FileSize(f) - CHUNK_SIZE, CHUNK_SIZE)
             scan == ScanLoop(ScanStart, Split(buffer, "\n"))
         IN  IF scan.st = "panic" THEN [st |-> "panic", xrefAt |-> 0 - 1]
             ELSE LET t == parse_dict(scan.l.trailer)
                      x == parse_xref(f, scan.l.xref_offset)
                  IN  IF t.st = "panic" THEN [st |-> "panic", xrefAt |-> 0 - 1]
                      ELSE IF x.st = "panic"
                           THEN [st |-> "panic", xrefAt |-> scan.l.xref_offset]
                           ELSE [st |-> "ok", trailer |-> t.v, xref |-> x.v,
                                 xrefAt |-> scan.l.xref_offset]

\* the locals of cat_object's loop
CatStart == [found_stream |-> FALSE, obj_dict_buffer |-> <<>>, stream_buffer |-> <<>>]

RECURSIVE CatLoop(_, _)
\* the loop of cat_object over the lines of the chunk
CatLoop(l, lines) ==
    IF lines = <<>> THEN l
    ELSE IF Head(lines) = kwStream
         THEN CatLoop([l EXCEPT !.found_stream = TRUE], Tail(lines))
    ELSE IF Head(lines) = kwEndstream THEN l
    ELSE IF ~l.found_stream
         THEN CatLoop([l EXCEPT !.obj_dict_buffer = l.obj_dict_buffer \o Head(lines)],
                      Tail(lines))
         ELSE CatLoop([l EXCEPT !.stream_buffer = l.stream_buffer \o Head(lines)],
                      Tail(lines))

\* cat_object(file, object_offset); ioOk: the seek and the read succeed
cat_object(f, object_offset, ioOk) ==
    IF ~ioOk THEN Panic
    ELSE LET file_buffer == ReadBytes(f, object_offset, CHUNK_SIZE)
             l == CatLoop(CatStart, Split(file_buffer, "\n"))
             obj_dict == parse_dict(l.obj_dict_buffer)
         IN  IF obj_dict.st = "panic" THEN Panic
             ELSE [st |-> "ok", offset |-> object_offset,
                   dictText |-> l.obj_dict_buffer, stream |-> l.stream_buffer,
                   obj_dict |-> obj_dict.v]

RECURSIVE CatXrefLoop(_, _, _, _)
\* the loop of cat_xref_table from element i of the table: the extractions
\* made, and whether the loop ended or panicked
CatXrefLoop(f, table, i, ioOk) ==
    IF i > Len(table) THEN [st |-> "ok", done |-> <<>>, at |-> 0]
    ELSE IF table[i].tag = "Str"
         THEN IF ~ParseU64(table[i].s).ok THEN [st |-> "panic", done |-> <<>>, at |-> i]
              ELSE LET o == cat_object(f, ParseU64(table[i].s).v, ioOk)
                   IN  IF o.st = "panic" THEN [st |-> "panic", done |-> <<>>, at |-> i]
                       ELSE [st |-> "ok", done |-> <<o>>, at |-> 0]   \* break
         ELSE CatXrefLoop(f, table, i + 1, ioOk)

\* cat_xref_table(file, xref): xref.iter().skip(1)
cat_xref_table(f, table, ioOk) == CatXrefLoop(f, table, 2, ioOk)

-----------------------------------------------------------------------------
(* COS parser runs: a text is written as a wrapper around a sequence of    *)
(* items, each item a piece of COS text, separated by single spaces.       *)

MaxItems == 4

NoNode == [tag |-> "None"]

\* the pieces of text, what each is, and the DictNode it stands for alone
BaseItems == <<
    [txt |-> <<"1">>,                kind |-> "int",  exp |-> IntNode(1)],
    [txt |-> <<"-", "2", "0">>,      kind |-> "int",  exp |-> IntNode(0 - 20)],
    [txt |-> <<"R">>,                kind |-> "R",    exp |-> NoNode],
    [txt |-> <<"/", "A">>,           kind |-> "name", exp |-> StrNode(<<"/", "A">>), name |-> <<"A">>],
    [txt |-> <<"/", "B", "c">>,      kind |-> "name", exp |-> StrNode(<<"/", "B", "c">>), name |-> <<"B", "c">>],
    [txt |-> <<"[", " ", "]">>,      kind |-> "node", exp |-> ArrayNode(<<>>)],
    [txt |-> <<"[", "1", " ", "-", "2", "0", "]">>,
                                     kind |-> "node",
                                     exp |-> ArrayNode(<<IntNode(1), IntNode(0 - 20)>>)],
    [txt |-> <<"3", " ", "0", " ", "R">>,
                                     kind |-> "node", exp |-> RefNode(3, 0)],
    [txt |-> <<"<", "<", "/", "A", "[", "[", "1", "]", "3", "]", ">", ">">>,
                                     kind |-> "node",
                                     exp |-> DictNode([k \in {<<"A">>} |->
                                                ArrayNode(<<ArrayNode(<<IntNode(1)>>), IntNode(3)>>)])]
>>

\* pieces for the edges of the grammar: unbalanced parentheses, floats, and
\* an integer one above i64::MAX
EdgeItems == <<
    [txt |-> <<"(", "(", "2", "2", ")">>, kind |-> "bad", exp |-> NoNode],
    [txt |-> <<"0", ".", "0", "2">>,      kind |-> "float",
     exp |-> FloatNode([neg |-> FALSE, int |-> <<"0">>, frac |-> <<"0", "2">>])],
    [txt |-> <<"-", "2", "1", "4", ".", "9", "4", "6">>, kind |-> "float",
     exp |-> FloatNode([neg |-> TRUE, int |-> <<"2", "1", "4">>, frac |-> <<"9", "4", "6">>])],
    [txt |-> <<"5", ".">>,                kind |-> "float",
     exp |-> FloatNode([neg |-> FALSE, int |-> <<"5">>, frac |-> <<>>])],
    [txt |-> I64MinDigits, kind |-> "big", exp |-> NoNode]
>>

ItemTable == BaseItems \o EdgeItems

ItemIds == 1..Len(BaseItems)
\* the edge pieces, with the plain integer and the letter R beside them
EdgeIds == {i \in 1..Len(ItemTable) :
               \/ ItemTable[i].kind \in {"bad", "float", "big", "R"}
               \/ ItemTable[i].txt = <<"1">>}
Wraps == {"node", "array", "dict"}

SeqsUpTo(S, n) == UNION {[1..k -> S] : k \in 0..n}

RECURSIVE Join(_)
\* the items' texts, separated by single spaces
Join(items) ==
    IF items = <<>> THEN <<>>
    ELSE IF Len(items) = 1 THEN ItemTable[items[1]].txt
    ELSE ItemTable[items[1]].txt \o <<" ">> \o Join(Tail(items))

Render(in) ==
    CASE in.wrap = "node"  -> Join(in.items)
      [] in.wrap = "array" -> <<"[">> \o Join(in.items) \o <<"]">>
      [] in.wrap = "dict"  -> <<"<", "<", " ">> \o Join(in.items) \o <<" ", ">", ">">>

NotRun == [st |-> "none"]
NoXrefIn == [count |-> 0, lines |-> <<>>]
NoFileIn == [objs |-> <<>>, sx |-> "good", pad |-> 0]

InitCos ==
    /\ cosIn \in [wrap : Wraps, items : SeqsUpTo(ItemIds, MaxItems)]
    /\ cosText = Render(cosIn)
    /\ cosRes = NotRun
    /\ xrefIn = NoXrefIn
    /\ xrefText = <<>>
    /\ xrefRes = NotRun
    /\ fileIn = NoFileIn
    /\ file = [pad |-> 0, body |-> <<>>]
    /\ pc = "idle"
    /\ trailer = NoNode
    /\ xref = NoNode
    /\ xrefAt = 0 - 1
    /\ failedAt = 0
    /\ extracted = <<>>

\* the caller runs the COS parser on the text
ParseObject ==
    /\ cosRes = NotRun
    /\ cosRes' = parse_object(cosText)
    /\ UNCHANGED <<cosIn, cosText, xrefVars, mainVars>>

NextCos == ParseObject

SpecCos == InitCos /\ [][NextCos]_vars

\* the same runs on texts made of the edge pieces
InitCosEdge ==
    /\ cosIn \in [wrap : Wraps, items : SeqsUpTo(EdgeIds, MaxItems)]
    /\ cosText = Render(cosIn)
    /\ cosRes = NotRun
    /\ xrefIn = NoXrefIn
    /\ xrefText = <<>>
    /\ xrefRes = NotRun
    /\ fileIn = NoFileIn
    /\ file = [pad |-> 0, body |-> <<>>]
    /\ pc = "idle"
    /\ trailer = NoNode
    /\ xref = NoNode
    /\ xrefAt = 0 - 1
    /\ failedAt = 0
    /\ extracted = <<>>

SpecCosEdge == InitCosEdge /\ [][NextCos]_vars

-----------------------------------------------------------------------------
(* xref parser runs: the text is `xref`, a header `0 <count>`, entry       *)
(* lines, `trailer`.                                                       *)

MaxEntries == 3

\* the entry lines, and the XRefEntry each stands for when well formed
LineTable == <<
    [txt |-> <<"0","0","0","0","0","0","0","0","0","0"," ","6","5","5","3","5"," ","f">>,
     good |-> TRUE,  exp |-> XRefEntry(0, 65535, TRUE)],
    [txt |-> <<"0","0","0","0","1","1","8","4","2","4"," ","0","0","0","0","0"," ","n"," ">>,
     good |-> TRUE,  exp |-> XRefEntry(118424, 0, FALSE)],
    [txt |-> <<" ","0","0","0","0","0","0","0","0","1","7"," ","0","0","0","0","1"," ","n">>,
     good |-> TRUE,  exp |-> XRefEntry(17, 1, FALSE)],
    [txt |-> <<"0","0","0","0","0","0","0","0","1","7"," ","n">>,
     good |-> FALSE, exp |-> XRefEntry(0, 0, FALSE)],
    [txt |-> <<"0","0","0","0","0","0","0","0","1","7"," ","0","0","0","0","0"," ","x">>,
     good |-> FALSE, exp |-> XRefEntry(0, 0, FALSE)],
    [txt |-> <<"1","7"," ","0"," ","0"," ","n">>,
     good |-> FALSE, exp |-> XRefEntry(0, 0, FALSE)]
>>

LineIds == 1..Len(LineTable)

DigitChar(n) ==
    CASE n = 0 -> "0" [] n = 1 -> "1" [] n = 2 -> "2" [] n = 3 -> "3" [] n = 4 -> "4"
      [] n = 5 -> "5" [] n = 6 -> "6" [] n = 7 -> "7" [] n = 8 -> "8" [] n = 9 -> "9"

RECURSIVE Decimal(_)
\* a number written in base 10
Decimal(n) == IF n < 10 THEN <<DigitChar(n)>>
              ELSE Append(Decimal(n \div 10), DigitChar(n % 10))

RECURSIVE EntryLines(_)
EntryLines(ls) ==
    IF ls = <<>> THEN <<>> ELSE LineTable[ls[1]].txt \o <<"\n">> \o EntryLines(Tail(ls))

RenderXref(in) ==
    <<"x", "r", "e", "f", "\n", "0", " ">> \o Decimal(in.count) \o <<"\n">>
        \o EntryLines(in.lines) \o <<"t", "r", "a", "i", "l", "e", "r", "\n">>

InitXref ==
    /\ xrefIn \in [count : 0..(MaxEntries + 1), lines : SeqsUpTo(LineIds, MaxEntries)]
    /\ xrefText = RenderXref(xrefIn)
    /\ xrefRes = NotRun
    /\ cosIn = [wrap |-> "node", items |-> <<>>]
    /\ cosText = <<>>
    /\ cosRes = NotRun
    /\ fileIn = NoFileIn
    /\ file = [pad |-> 0, body |-> <<>>]
    /\ pc = "idle"
    /\ trailer = NoNode
    /\ xref = NoNode
    /\ xrefAt = 0 - 1
    /\ failedAt = 0
    /\ extracted = <<>>

\* the caller runs the xref table parser on the text
ParseXrefTable ==
    /\ xrefRes = NotRun
    /\ xrefRes' = xref_parse(xrefText)
    /\ UNCHANGED <<xrefIn, xrefText, cosVars, mainVars>>

NextXref == ParseXrefTable

SpecXref == InitXref /\ [][NextXref]_vars

-----------------------------------------------------------------------------
(* Runs of main(): the file is written as MaxObjs or fewer objects, the    *)
(* xref section (entry 0 free, then one entry per object), the trailer     *)
(* and the startxref tail.                                                 *)

MaxObjs == 3

ObjKinds == {"plain", "stream"}
\* in use; free; in use with an unreadable offset; an entry line of two
\* fields; an entry line whose usage flag is x
EntryKinds == {"n", "f", "bad", "short", "flag"}
\* startxref with the table's offset; no startxref; startxref with text
\* that is no number; startxref with the offset 0
SxKinds == {"good", "missing", "garbage", "zero"}

RECURSIVE ZeroPad(_, _)
ZeroPad(d, w) == IF Len(d) >= w THEN d ELSE ZeroPad(<<"0">> \o d, w)

ObjText(i, kind) ==
    Decimal(i) \o <<" ", "0", " ", "o", "b", "j", "\n", "<", "<", " ", "/", "A", " ">> \o Decimal(i) \o <<" ", ">", ">", "\n">>
      \o (IF kind = "stream" THEN <<"s", "t", "r", "e", "a", "m", "\n", "x", "y", "z", "\n", "e", "n", "d", "s", "t", "r", "e", "a", "m", "\n">> ELSE <<>>)
      \o <<"e", "n", "d", "o", "b", "j", "\n">>

RECURSIVE ObjsText(_, _)
\* the text of objects 1..n
ObjsText(objs, n) ==
    IF n = 0 THEN <<>> ELSE ObjsText(objs, n - 1) \o ObjText(n, objs[n].kind)

\* the byte offset at which object i starts
ObjOffset(in, i) == in.pad + Len(ObjsText(in.objs, i - 1))

EntryText(in, i) ==
    CASE in.objs[i].entry = "n"   -> ZeroPad(Decimal(ObjOffset(in, i)), 10) \o <<" ", "0", "0", "0", "0", "0", " ", "n", " ", "\n">>
      [] in.objs[i].entry = "f"   -> <<"0", "0", "0", "0", "0", "0", "0", "0", "0", "0", " ", "0", "0", "0", "0", "1", " ", "f", " ", "\n">>
      [] in.objs[i].entry = "bad" -> <<"0", "0", "0", "0", "0", "0", "0", "0", "x", "7", " ", "0", "0", "0", "0", "0", " ", "n", " ", "\n">>
      [] in.objs[i].entry = "short" -> ZeroPad(Decimal(ObjOffset(in, i)), 10) \o <<" ", "0", "0", "0", "0", "0", " ", "\n">>
      [] in.objs[i].entry = "flag"  -> ZeroPad(Decimal(ObjOffset(in, i)), 10) \o <<" ", "0", "0", "0", "0", "0", " ", "x", " ", "\n">>

RECURSIVE EntriesText(_, _)
EntriesText(in, n) ==
    IF n = 0 THEN <<>> ELSE EntriesText(in, n - 1) \o EntryText(in, n)

XrefOffset(in) == in.pad + Len(ObjsText(in.objs, Len(in.objs)))

TrailerDictText == <<"<", "<", " ", "/", "S", "i", "z", "e", " ", "4", " ", "/", "R", "o", "o", "t", " ", "1", " ", "0", " ", "R", " ", ">", ">">>

FileBody(in) ==
    ObjsText(in.objs, Len(in.objs))
      \o <<"x", "r", "e", "f", "\n", "0", " ">> \o Decimal(Len(in.objs) + 1) \o <<"\n">>
      \o <<"0", "0", "0", "0", "0", "0", "0", "0", "0", "0", " ", "6", "5", "5", "3", "5", " ", "f", " ", "\n">>
      \o EntriesText(in, Len(in.objs))
      \o kwTrailer \o <<"\n">> \o TrailerDictText \o <<"\n">>
      \o (CASE in.sx = "good"    -> kwStartxref \o <<"\n">> \o Decimal(XrefOffset(in)) \o <<"\n">>
            [] in.sx = "garbage" -> kwStartxref \o <<"\n", "a", "b", "c", "\n">>
            [] in.sx = "zero"    -> kwStartxref \o <<"\n", "0", "\n">>
            [] in.sx = "missing" -> <<>>)
      \o <<"%", "%", "E", "O", "F", "\n">>

InitMain ==
    /\ fileIn \in [objs : SeqsUpTo([kind : ObjKinds, entry : EntryKinds], MaxObjs),
                   sx : SxKinds, pad : {0, CHUNK_SIZE}]
    /\ file = [pad |-> fileIn.pad, body |-> FileBody(fileIn)]
    /\ pc = "start"
    /\ trailer = NoNode
    /\ xref = NoNode
    /\ xrefAt = 0 - 1
    /\ failedAt = 0
    /\ extracted = <<>>
    /\ cosIn = [wrap |-> "node", items |-> <<>>]
    /\ cosText = <<>>
    /\ cosRes = NotRun
    /\ xrefIn = NoXrefIn
    /\ xrefText = <<>>
    /\ xrefRes = NotRun

\* main() calls get_doc_metadata
GetDocMetadata ==
    /\ pc = "start"
    /\ \E r \in {get_doc_metadata(file)} :
           /\ pc' = IF r.st = "ok" THEN "booted" ELSE "boot_panic"
           /\ trailer' = IF r.st = "ok" THEN r.trailer ELSE trailer
           /\ xref' = IF r.st = "ok" THEN r.xref ELSE xref
           /\ xrefAt' = r.xrefAt
    /\ UNCHANGED <<fileIn, file, failedAt, extracted, cosVars, xrefVars>>

\* main() calls cat_xref_table on the array get_doc_metadata returned
CatXrefTable ==
    /\ pc = "booted"
    /\ xref.tag = "Array"
    /\ \E ioOk \in BOOLEAN :
          \E r \in {cat_xref_table(file, xref.items, ioOk)} :
              /\ pc' = IF r.st = "ok" THEN "done" ELSE "walk_panic"
              /\ extracted' = r.done
              /\ failedAt' = r.at
    /\ UNCHANGED <<fileIn, file, trailer, xref, xrefAt, cosVars, xrefVars>>

NextMain == GetDocMetadata \/ CatXrefTable

SpecMain == InitMain /\ [][NextMain]_vars

-----------------------------------------------------------------------------
(* Claims about the COS parser, stated on how the text was written.        *)

Kind(i) == ItemTable[i].kind
Exp(i) == ItemTable[i].exp
CosRan == cosRes # NotRun
CosOk == cosRes.st = "ok"

\* items i, i+1, i+2 are written `int int R`
IsRefAt(items, i) ==
    /\ i + 2 <= Len(items)
    /\ Kind(items[i]) = "int" /\ Kind(items[i + 1]) = "int" /\ Kind(items[i + 2]) = "R"

RECURSIVE NoStrayR(_)
\* every R of the sequence closes an `int int R` read from the left
NoStrayR(items) ==
    IF items = <<>> THEN TRUE
    ELSE IF IsRefAt(items, 1) THEN NoStrayR(SubSeq(items, 4, Len(items)))
    ELSE Kind(items[1]) # "R" /\ NoStrayR(Tail(items))

RECURSIVE Grouped(_)
\* the nodes a sequence of items stands for, read from the left
Grouped(items) ==
    IF items = <<>> THEN <<>>
    ELSE IF IsRefAt(items, 1)
         THEN <<RefNode(Exp(items[1]).i, Exp(items[2]).i)>>
                  \o Grouped(SubSeq(items, 4, Len(items)))
         ELSE <<Exp(items[1])>> \o Grouped(Tail(items))

\* C1: wherever a node is expected (top level, array element, dictionary
\* value), `int int R` is parsed as one ObjectReference carrying the two
\* integers in source order, and ints not followed by R stay Int scalars.
C1_ReferenceGrouping ==
    CosRan =>
      /\ (cosIn.wrap = "node" /\ cosIn.items # <<>> /\ Kind(cosIn.items[1]) # "R")
            => (CosOk /\ cosRes.v = Grouped(cosIn.items)[1])
      /\ (cosIn.wrap = "array" /\ NoStrayR(cosIn.items))
            => (CosOk /\ cosRes.v = ArrayNode(Grouped(cosIn.items)))
      /\ (/\ cosIn.wrap = "dict" /\ Len(cosIn.items) >= 2
          /\ Kind(cosIn.items[1]) = "name"
          /\ NoStrayR(Tail(cosIn.items))
          /\ Len(Grouped(Tail(cosIn.items))) = 1)
            => (/\ CosOk /\ cosRes.v.tag = "Dict"
                /\ DOMAIN cosRes.v.m = {ItemTable[cosIn.items[1]].name}
                /\ cosRes.v.m[ItemTable[cosIn.items[1]].name] = Grouped(Tail(cosIn.items))[1])

\* C1 witness: an array written int, int, int, R was parsed into an Int
\* followed by one ObjectReference
C1_Witness ==
    /\ CosRan /\ CosOk /\ cosIn.wrap = "array"
    /\ Len(cosIn.items) = 4 /\ Kind(cosIn.items[1]) = "int" /\ IsRefAt(cosIn.items, 2)
    /\ cosIn.items[2] # cosIn.items[3]
    /\ Len(cosRes.v.items) = 2
    /\ cosRes.v.items[1].tag = "Int" /\ cosRes.v.items[2].tag = "ObjectReference"

RECURSIVE WellFormedPairs(_)
\* the items are written k_1 v_1 ... k_n v_n: a name, then one node
WellFormedPairs(items) ==
    IF items = <<>> THEN TRUE
    ELSE /\ Len(items) >= 2 /\ Kind(items[1]) = "name"
         /\ IF IsRefAt(items, 2) THEN WellFormedPairs(SubSeq(items, 5, Len(items)))
            ELSE Kind(items[2]) # "R" /\ WellFormedPairs(SubSeq(items, 3, Len(items)))

RECURSIVE Pairs(_)
\* the <<key name, value node>> pairs of well-formed items, in source order
Pairs(items) ==
    IF items = <<>> THEN <<>>
    ELSE IF IsRefAt(items, 2)
         THEN <<<<ItemTable[items[1]].name, RefNode(Exp(items[2]).i, Exp(items[3]).i)>>>>
                  \o Pairs(SubSeq(items, 5, Len(items)))
         ELSE <<<<ItemTable[items[1]].name, Exp(items[2])>>>>
                  \o Pairs(SubSeq(items, 3, Len(items)))

DistinctKeys(ps) == \A i, j \in 1..Len(ps) : i # j => ps[i][1] # ps[j][1]

\* C9: a dictionary text k_1 v_1 ... k_n v_n with pairwise distinct keys
\* gives a Dict of exactly n entries, each key without its leading "/"
\* mapped to the DictNode of its value; a name used as value keeps its "/".
C9_DictEntries ==
    (/\ CosRan /\ cosIn.wrap = "dict"
     /\ WellFormedPairs(cosIn.items) /\ DistinctKeys(Pairs(cosIn.items)))
       => LET ps == Pairs(cosIn.items)
          IN  /\ CosOk /\ cosRes.v.tag = "Dict"
              /\ Cardinality(DOMAIN cosRes.v.m) = Len(ps)
              /\ \A i \in 1..Len(ps) :
                    /\ ps[i][1] \in DOMAIN cosRes.v.m
                    /\ cosRes.v.m[ps[i][1]] = ps[i][2]

\* C9 witness: a dictionary of two pairs, a reference and a name as values
C9_Witness ==
    /\ CosRan /\ CosOk /\ cosIn.wrap = "dict"
    /\ WellFormedPairs(cosIn.items) /\ DistinctKeys(Pairs(cosIn.items))
    /\ Len(Pairs(cosIn.items)) = 2
    /\ Pairs(cosIn.items)[1][2].tag = "ObjectReference"
    /\ Pairs(cosIn.items)[2][2] = StrNode(<<"/", "A">>)
    /\ Cardinality(DOMAIN cosRes.v.m) = 2

\* C10: an array text with elements n_1 ... n_k gives Array([d_1 .. d_k]),
\* d_i the DictNode of n_i, in source order at every nesting level; the
\* empty array gives Array([]).
C10_ArrayOrder ==
    (/\ CosRan /\ cosIn.wrap = "array"
     /\ \A i \in 1..Len(cosIn.items) : Kind(cosIn.items[i]) # "R")
       => /\ CosOk
          /\ cosRes.v = ArrayNode([i \in 1..Len(cosIn.items) |-> Exp(cosIn.items[i])])

\* C10 witness: an array of three different elements, among them a nested
\* array and a dictionary holding nested arrays
C10_Witness ==
    /\ CosRan /\ CosOk /\ cosIn.wrap = "array"
    /\ Len(cosIn.items) = 3
    /\ \A i \in 1..3 : Kind(cosIn.items[i]) = "node"
    /\ cosRes.v.items[1].tag = "Array" /\ Len(cosRes.v.items[1].items) = 2
    /\ cosRes.v.items[2].tag = "Dict"
    /\ cosRes.v.items[3].tag = "ObjectReference"

-----------------------------------------------------------------------------
(* Claims about the xref table parser                                      *)

XrefRan == xrefRes # NotRun
XrefOk == xrefRes.st = "ok"

\* C3 as claimed: an accepted xref text gives a table as long as the
\* count its header declares, and a text whose number of entry lines
\* differs from the declared count gives no table.
C3_LengthIsDeclaredCount ==
    XrefRan =>
      /\ XrefOk => Len(xrefRes.table) = xrefIn.count
      /\ Len(xrefIn.lines) # xrefIn.count => ~XrefOk

\* C3 amended: an accepted xref text gives a table as long as the number
\* of entry lines between the header and `trailer` (at least one); the
\* count the header declares is not compared with it.
C3_LengthIsEntryLines ==
    (XrefRan /\ XrefOk) =>
      /\ Len(xrefRes.table) = Len(xrefIn.lines)
      /\ Len(xrefRes.table) >= 1

\* C3 witness: a text declaring a count other than its two entry lines
\* was accepted
C3_Witness ==
    /\ XrefRan /\ XrefOk
    /\ Len(xrefIn.lines) = 2 /\ xrefIn.count # 2
    /\ Len(xrefRes.table) = 2

\* C4: the table holds the entries in file declaration order: entry i has
\* the offset, generation and free flag of entry line i.
C4_DeclarationOrder ==
    (XrefRan /\ XrefOk) =>
      /\ Len(xrefRes.table) = Len(xrefIn.lines)
      /\ \A i \in 1..Len(xrefIn.lines) :
            /\ LineTable[xrefIn.lines[i]].good
            /\ xrefRes.table[i] = LineTable[xrefIn.lines[i]].exp

\* C4 witness: a table of a free entry followed by two different in-use
\* entries
C4_Witness ==
    /\ XrefRan /\ XrefOk /\ Len(xrefRes.table) = 3
    /\ xrefRes.table[1].is_free /\ ~xrefRes.table[2].is_free /\ ~xrefRes.table[3].is_free
    /\ xrefRes.table[2].offset = 118424 /\ xrefRes.table[3].offset = 17

-----------------------------------------------------------------------------
(* Claims about main(): bootstrap, the walk and the object locator         *)

BootRan == pc \in {"boot_panic", "booted", "done", "walk_panic"}
BootReturned == pc \in {"booted", "done", "walk_panic"}

\* the file is at least CHUNK_SIZE long and ends trailer, startxref, offset
WellFormedFile == fileIn.sx = "good" /\ FileSize(file) >= CHUNK_SIZE

kRoot == <<"R", "o", "o", "t">>
kSize == <<"S", "i", "z", "e">>

\* C2 as claimed: bootstrap on a file whose trailer text is a dictionary
\* with /Root returns a trailer Dict that has the key "Root", and every
\* key written between << and >> is a key of the returned Dict.
C2_TrailerHasRoot ==
    (BootRan /\ WellFormedFile) =>
      /\ BootReturned
      /\ trailer.tag = "Dict"
      /\ kRoot \in DOMAIN trailer.m
      /\ kSize \in DOMAIN trailer.m

\* the objects whose xref entry is flagged in use with a readable offset
InUse(in) == {i \in 1..Len(in.objs) : in.objs[i].entry = "n"}

RECURSIVE InUseOffsets(_, _)
\* the offsets of the in-use entries among entries 1..n, in table order
InUseOffsets(in, n) ==
    IF n = 0 THEN <<>>
    ELSE InUseOffsets(in, n - 1)
           \o (IF n \in InUse(in) THEN <<ObjOffset(in, n)>> ELSE <<>>)

ExtractedOffsets == [k \in 1..Len(extracted) |-> extracted[k].offset]

AllEntriesReadable == \A i \in 1..Len(fileIn.objs) : fileIn.objs[i].entry # "bad"

\* C5 as claimed: the walk extracts every in-use entry and skips every
\* free one: for k in-use entries it makes exactly k extractions, one at
\* each in-use entry's offset.
C5_WalkExtractsInUse ==
    (pc = "done" /\ WellFormedFile /\ AllEntriesReadable)
       => ExtractedOffsets = InUseOffsets(fileIn, Len(fileIn.objs))

\* C6 as claimed: when the extraction of one object fails, the entries
\* before and after it are still extracted in the same walk.
C6_FaultIsolation ==
    (pc = "walk_panic" /\ WellFormedFile)
       => \A i \in InUse(fileIn) :
             i + 1 # failedAt
                => \E k \in 1..Len(extracted) : extracted[k].offset = ObjOffset(fileIn, i)

\* C7 as claimed: when the trailing window has no `startxref` line,
\* bootstrap fails, returns nothing, and parses no xref table at a
\* default offset.
C7_NoStartxrefFails ==
    (BootRan /\ fileIn.sx = "missing")
       => (pc = "boot_panic" /\ xrefAt = 0 - 1)

kwEndobj == <<"e", "n", "d", "o", "b", "j">>

RECURSIVE UntilSentinel(_)
\* the lines before the first sentinel line, concatenated
UntilSentinel(lines) ==
    IF lines = <<>> THEN <<>>
    ELSE IF Head(lines) \in {kwStream, kwEndstream, kwEndobj} THEN <<>>
    ELSE Head(lines) \o UntilSentinel(Tail(lines))

\* C8 as claimed: the dictionary text of an extraction is the lines of the
\* chunk strictly between its first line (the `<id> <gen> obj` header) and
\* the first line that is `stream`, `endstream` or `endobj`.
C8_DictTextBetweenHeaderAndSentinel ==
    \A k \in 1..Len(extracted) :
       extracted[k].dictText =
          UntilSentinel(Tail(Split(ReadBytes(file, extracted[k].offset, CHUNK_SIZE), "\n")))

-----------------------------------------------------------------------------
(* Claims on the edge texts                                                *)

\* the text is the piece `((22)` alone, or that piece as the first element
\* of an array
Unbalanced ==
    /\ cosIn.items # <<>> /\ Kind(cosIn.items[1]) = "bad"
    /\ cosIn.wrap \in {"node", "array"}

\* the tree was built from the text up to cosRes.end and only whitespace
\* follows
WholeInput == skip(cosText, cosRes.end) = Len(cosText) + 1

\* C11 as claimed: the COS parser either returns a tree that accounts for
\* the whole input or reports a failure, never a tree built from a proper
\* prefix with unmatched text left behind; a text with unbalanced
\* parentheses such as `((22)` is a failure.
C11_FailsClosed ==
    CosRan =>
      /\ CosOk => WholeInput
      /\ Unbalanced => cosRes.st = "error"

\* the second half of C11 alone: unbalanced parentheses are a failure
C11_UnbalancedFails == (CosRan /\ Unbalanced) => cosRes.st = "error"

-----------------------------------------------------------------------------
(* Claims on malformed entry lines                                         *)

Malformed(in) == {i \in 1..Len(in.objs) : in.objs[i].entry \in {"short", "flag"}}

\* C12 as claimed: when an entry line between the header and `trailer` has
\* a wrong number of fields or a usage flag other than f or n, the parse
\* of the table fails and no table is produced, not even one holding the
\* well-formed entries before the bad line.
C12_NoPartialTable ==
    (BootRan /\ WellFormedFile /\ Malformed(fileIn) # {}) => ~BootReturned

-----------------------------------------------------------------------------
(* Claims on duplicate keys                                                *)

\* the value of the first, and of the last, pair of ps written with key k
FirstOf(ps, k) ==
    ps[CHOOSE i \in 1..Len(ps) : ps[i][1] = k /\ \A j \in 1..(i - 1) : ps[j][1] # k][2]
LastOf(ps, k) ==
    ps[CHOOSE i \in 1..Len(ps) : ps[i][1] = k /\ \A j \in (i + 1)..Len(ps) : ps[j][1] # k][2]

DictRun == CosRan /\ cosIn.wrap = "dict" /\ WellFormedPairs(cosIn.items)

\* C13 as claimed: when a dictionary text writes a key more than once, the
\* Dict maps the key to the value of its last occurrence in source order.
C13_LastOccurrenceWins ==
    DictRun =>
       LET ps == Pairs(cosIn.items)
       IN  /\ CosOk /\ cosRes.v.tag = "Dict"
           /\ \A i \in 1..Len(ps) : cosRes.v.m[ps[i][1]] = LastOf(ps, ps[i][1])

\* C13 amended: when a dictionary text writes a key more than once, the
\* Dict has one entry for the key and maps it to the value of its first
\* occurrence in source order.
C13_FirstOccurrenceWins ==
    DictRun =>
       LET ps == Pairs(cosIn.items)
       IN  /\ CosOk /\ cosRes.v.tag = "Dict"
           /\ DOMAIN cosRes.v.m = {ps[i][1] : i \in 1..Len(ps)}
           /\ \A i \in 1..Len(ps) : cosRes.v.m[ps[i][1]] = FirstOf(ps, ps[i][1])

\* C13 witness: a dictionary written with the same key twice, over two
\* different values, was parsed and holds the first value
C13_Witness ==
    /\ DictRun /\ CosOk
    /\ Len(Pairs(cosIn.items)) = 2
    /\ Pairs(cosIn.items)[1][1] = Pairs(cosIn.items)[2][1]
    /\ Pairs(cosIn.items)[1][2] # Pairs(cosIn.items)[2][2]
    /\ Cardinality(DOMAIN cosRes.v.m) = 1
    /\ cosRes.v.m[Pairs(cosIn.items)[1][1]] = Pairs(cosIn.items)[1][2]

-----------------------------------------------------------------------------
(* Claims on the bootstrap scan                                            *)

\* the scan of get_doc_metadata over the trailing window of the file
WindowScan ==
    ScanLoop(ScanStart, Split(ReadBytes(file, FileSize(file) - CHUNK_SIZE, CHUNK_SIZE), "\n"))

\* the offset written on the line after startxref
DeclaredOffset == IF fileIn.sx = "zero" THEN 0 ELSE XrefOffset(fileIn)

\* C14 as claimed: the scan takes the xref offset from the line right
\* after `startxref` and from no other line, for every offset value, 0
\* included: it ends with that value, no later line such as %%EOF is
\* parsed as an offset, and the trailer text is the lines between
\* `trailer` and `startxref` and nothing after.
C14_OffsetFromNextLineOnly ==
    (BootRan /\ FileSize(file) >= CHUNK_SIZE /\ fileIn.sx \in {"good", "zero"})
       => /\ WindowScan.st = "ok"
          /\ WindowScan.l.xref_offset = DeclaredOffset
          /\ WindowScan.l.trailer = TrailerDictText
          /\ xrefAt = DeclaredOffset

\* C14 without the offset 0: what the scan does for the files whose
\* startxref line is followed by a positive offset
C14_PositiveOffsets ==
    (BootRan /\ FileSize(file) >= CHUNK_SIZE /\ fileIn.sx = "good")
       => /\ WindowScan.st = "ok"
          /\ WindowScan.l.xref_offset = DeclaredOffset
          /\ WindowScan.l.trailer = TrailerDictText
          /\ xrefAt = DeclaredOffset

-----------------------------------------------------------------------------
(* Claims on numeric tokens                                                *)

\* every item is a float or an integer that fits an i64
Numbers(items) == \A i \in 1..Len(items) : Kind(items[i]) \in {"int", "float"}

\* C15: where the float rule matches, the int rule does not; a node text
\* that starts with a float token gives that one Float, and an array of
\* float tokens and digit runs gives, element by element, a Float for each
\* token with a "." and an Int for each digit run.
C15_FloatPriority ==
    CosRan =>
      /\ \A p \in 1..Len(cosText) : float(cosText, p) # 0 => int(cosText, p) = 0
      /\ (cosIn.wrap = "node" /\ cosIn.items # <<>> /\ Kind(cosIn.items[1]) = "float")
            => (CosOk /\ cosRes.v = Exp(cosIn.items[1]))
      /\ (cosIn.wrap = "array" /\ Numbers(cosIn.items))
            => /\ CosOk /\ WholeInput
               /\ cosRes.v = ArrayNode([i \in 1..Len(cosIn.items) |-> Exp(cosIn.items[i])])

\* C15 witness: the array `[0.02 1 -214.946]` was parsed into a Float, an
\* Int and a Float
C15_Witness ==
    /\ CosRan /\ CosOk /\ cosIn.wrap = "array"
    /\ Len(cosIn.items) = 3 /\ Numbers(cosIn.items)
    /\ ItemTable[cosIn.items[1]].txt = <<"0", ".", "0", "2">>
    /\ Kind(cosIn.items[2]) = "int"
    /\ ItemTable[cosIn.items[3]].txt = <<"-", "2", "1", "4", ".", "9", "4", "6">>
    /\ cosRes.v.items[1].tag = "Float" /\ cosRes.v.items[2].tag = "Int"
    /\ cosRes.v.items[3].tag = "Float"
    /\ cosRes.v.items[3].f.neg /\ cosRes.v.items[3].f.frac = <<"9", "4", "6">>

-----------------------------------------------------------------------------
(* Claims on the reference arm                                             *)

\* the text is two digit runs and the letter R, given to the rule node
ReferenceText ==
    /\ cosIn.wrap = "node" /\ Len(cosIn.items) = 3
    /\ Kind(cosIn.items[1]) \in {"int", "big"} /\ Kind(cosIn.items[2]) \in {"int", "big"}
    /\ Kind(cosIn.items[3]) = "R"

\* C16 as claimed: building a reference never ends in a crash, whatever
\* the text the grammar accepted as a reference, integer tokens too large
\* for an i64 included: both child results are Int and the result is an
\* ObjectReference.
C16_ReferenceNeverCrashes ==
    (CosRan /\ ReferenceText) => (CosOk /\ cosRes.v.tag = "ObjectReference")

\* the first half of C16 alone: in every token queue the grammar produces,
\* the two tokens after a reference token are int tokens, so the operands
\* of the reference arm are never anything but Int
C16_OperandsAreInts ==
    CosRan =>
      LET g == node(cosText, skip(cosText, 1))
      IN  g.ok => \A i \in 1..Len(g.q) :
                     g.q[i].rule = "reference"
                        => /\ i + 2 <= Len(g.q)
                           /\ g.q[i + 1].rule = "int" /\ g.q[i + 2].rule = "int"

====
